---------------------------- MODULE Spec2Model ----------------------------
(***************************************************************************)
(* A model of compare_headers.py: one invocation of main() (and a second   *)
(* one on the file system the first one left behind).                      *)
(*                                                                         *)
(* A Python str is a sequence of one-character strings, so that strip(),   *)
(* lower(), Path.suffix, sorted() and the f-strings compute on characters. *)
(* A file's data is what csv.reader yields from it: the records of the     *)
(* file, each a sequence of raw fields, or a decode/parse failure.         *)
(***************************************************************************)
EXTENDS Integers, Sequences, FiniteSets, TLC

VARIABLES
    fs,            \* the file system: 1 is dir1, 2 is dir2, 0 another directory
    out_dir,       \* the directory args.output lies in: 0 or 1
    pc,            \* the statement main() is at
    dir1_files,    \* find_files(dir1): the keys, in insertion order
    dir2_files,    \* find_files(dir2): the keys, in insertion order
    all_filenames, \* compare_headers: sorted(set(dir1_files) | set(dir2_files))
    idx,           \* the position of the for loop in all_filenames
    results,       \* compare_headers: results
    rec,           \* read_headers: what next(reader) gave
    headers1,      \* compare_headers: headers1
    headers2,      \* compare_headers: headers2
    handles,       \* the input files open now, as <<directory, filename>>
    main_results,  \* main: results, once compare_headers has returned
    exit_code,     \* the exit status of the process, -1 while it runs
    stderr,        \* what SystemExit printed
    run,           \* the number of this invocation
    fs0,           \* history: the file system before the first invocation
    enumerated,    \* history: the directories this invocation has enumerated
    opened,        \* history: the input files this invocation has opened
    first_report   \* history: the report the first invocation wrote

vars == <<fs, out_dir, pc, dir1_files, dir2_files, all_filenames, idx, results,
          rec, headers1, headers2, handles, main_results, exit_code, stderr,
          run, fs0, enumerated, opened, first_report>>

---------------------------------------------------------------------------
(* Bounds of the model. *)

\* the longest header row of the files whose headers vary
MaxFields == 2
\* the number of invocations of main()
MaxRuns == 2

---------------------------------------------------------------------------
(* Strings. *)

Range(s) == {s[i] : i \in 1..Len(s)}

\* ord() of the characters that occur in file names
CodePoint(c) ==
    CASE c = "." -> 46 [] c = "B" -> 66 [] c = "C" -> 67 [] c = "T" -> 84
      [] c = "X" -> 88 [] c = "a" -> 97 [] c = "b" -> 98 [] c = "c" -> 99
      [] c = "j" -> 106 [] c = "n" -> 110 [] c = "o" -> 111 [] c = "s" -> 115
      [] c = "t" -> 116 [] c = "v" -> 118 [] c = "x" -> 120

\* str.lower() of one character
LowerChar(c) ==
    CASE c = "B" -> "b" [] c = "C" -> "c" [] c = "T" -> "t" [] c = "X" -> "x"
      [] OTHER -> c

\* str.lower()
Lower(s) == [i \in 1..Len(s) |-> LowerChar(s[i])]

\* the characters str.strip() removes
Whitespace == {" ", "\t"}

RECURSIVE LStrip(_)
LStrip(s) == IF s # <<>> /\ Head(s) \in Whitespace THEN LStrip(Tail(s)) ELSE s

RECURSIVE RStrip(_)
RStrip(s) ==
    IF s # <<>> /\ s[Len(s)] \in Whitespace
    THEN RStrip(SubSeq(s, 1, Len(s) - 1))
    ELSE s

\* str.strip()
Strip(s) == RStrip(LStrip(s))

\* s < t on Python strings: lexicographic on code points
LexLess(s, t) ==
    \E k \in 0..(IF Len(s) < Len(t) THEN Len(s) ELSE Len(t)) :
        /\ \A i \in 1..k : s[i] = t[i]
        /\ \/ k = Len(s) /\ k < Len(t)
           \/ k < Len(s) /\ k < Len(t) /\ CodePoint(s[k + 1]) < CodePoint(t[k + 1])

\* the least string of a non-empty set
Least(S) == CHOOSE s \in S : \A t \in S \ {s} : LexLess(s, t)

\* sorted() with key=str.lower: the order that ignores case
RECURSIVE SortedIgnoringCase(_)
SortedIgnoringCase(S) ==
    IF S = {} THEN <<>>
    ELSE LET m == CHOOSE s \in S :
                     \A t \in S \ {s} : ~LexLess(Lower(t), Lower(s))
         IN  <<m>> \o SortedIgnoringCase(S \ {m})

\* sorted(S) of a set of strings
RECURSIVE Sorted(_)
Sorted(S) == IF S = {} THEN <<>> ELSE <<Least(S)>> \o Sorted(S \ {Least(S)})

\* sep.join(parts)
RECURSIVE Join(_, _)
Join(sep, parts) ==
    IF parts = <<>> THEN <<>>
    ELSE IF Len(parts) = 1 THEN parts[1]
    ELSE parts[1] \o sep \o Join(sep, Tail(parts))

\* Path.suffix: the last dot of the name and what follows it, unless that dot
\* leads or ends the name
RECURSIVE LastDot(_)
LastDot(name) ==
    IF name = <<>> THEN 0
    ELSE IF name[Len(name)] = "." THEN Len(name)
    ELSE LastDot(SubSeq(name, 1, Len(name) - 1))

Suffix(name) ==
    LET i == LastDot(name)
    IN  IF 1 < i /\ i < Len(name) THEN SubSeq(name, i, Len(name)) ELSE <<>>

VALID_EXTENSIONS == {<<".", "c", "s", "v">>, <<".", "t", "x", "t">>}

---------------------------------------------------------------------------
(* The text the program writes. *)

NotFoundIn == <<" ", "n", "o", "t", " ", "f", "o", "u", "n", "d", " ", "i", "n", " ">>
Dir1Missing == <<"D", "i", "r", "1", " ", "h", "e", "a", "d", "e", "r", "s", " ", "m", "i", "s", "s", "i", "n", "g", " ", "i", "n", " ", "D", "i", "r", "2", ":", " ">>
Dir2Missing == <<"D", "i", "r", "2", " ", "h", "e", "a", "d", "e", "r", "s", " ", "m", "i", "s", "s", "i", "n", "g", " ", "i", "n", " ", "D", "i", "r", "1", ":", " ">>
DirNotFound == <<"D", "i", "r", "e", "c", "t", "o", "r", "y", " ", "n", "o", "t", " ", "f", "o", "u", "n", "d", ":", " ">>
S_match == <<"m", "a", "t", "c", "h">>
S_mismatch == <<"m", "i", "s", "m", "a", "t", "c", "h">>
S_missing == <<"m", "i", "s", "s", "i", "n", "g">>
ReportHeader == << <<"f", "i", "l", "e", "n", "a", "m", "e">>, <<"s", "t", "a", "t", "u", "s">>, <<"d", "e", "t", "a", "i", "l", "s">> >>

\* ComparisonResult(filename, status, details)
ComparisonResult(filename, status, details) ==
    [filename |-> filename, status |-> status, details |-> details]

---------------------------------------------------------------------------
(* The file system. *)

\* what csv.reader yields from a file: its records, or a failure to decode
Text(records) == [ok |-> TRUE, records |-> records]
Undecodable == [ok |-> FALSE, records |-> <<>>]

\* A directory entry. target is what the entry is once symbolic links are
\* followed ("none" for a broken link); type is what the entry itself is.
RegularFile(data) == [type |-> "file", target |-> "file", data |-> data]
SubDirectory == [type |-> "dir", target |-> "dir", data |-> Text(<<>>)]
SymLink(target, data) == [type |-> "link", target |-> target, data |-> data]

Directory(entries) == [kind |-> "dir", entries |-> entries]
\* a directory with no entries
NoEntries == [n \in {} |-> SubDirectory]

NoDirectory(kind) == [kind |-> kind, entries |-> NoEntries]

\* Path.exists() of dir1 or dir2: true of a file as well
exists(f, d) == f[d].kind # "none"

\* Path.is_dir() of dir1 or dir2
is_dir(f, d) == f[d].kind = "dir"

\* Path.is_file() of a directory entry: it follows symbolic links
is_file(entry) == entry.target = "file"

\* str(dir1), str(dir2)
DirPath(d) == IF d = 1 THEN <<"d", "1">> ELSE <<"d", "2">>

\* the name of the report file
OutName == <<"o", ".", "c", "s", "v">>

---------------------------------------------------------------------------
(* The inputs of the model: three families of directory pairs. *)

\* Files paired by name. Each name is in one directory, in both with equal or
\* different header sets, or in both with one file that does not decode.
PairNames == {<<"b", ".", "c", "s", "v">>, <<"B", ".", "t", "x", "t">>, <<"a", ".", "T", "X", "T">>}
PairCases == {"none", "only1", "only2", "match", "mismatch", "bad1", "bad2"}

\* the file of directory d under a name of case c
PairData(d, c) ==
    IF (d = 1 /\ c = "bad1") \/ (d = 2 /\ c = "bad2") THEN Undecodable
    ELSE IF d = 1 THEN Text(<< << <<"i", "d">>, <<"n">> >>, << <<"1">>, <<"x">> >> >>)
    ELSE IF c = "mismatch" THEN Text(<< << <<"n">>, <<"a", "g", "e">>, <<"a", "g", "e">> >> >>)
    ELSE Text(<< << <<"n", " ">>, <<"i", "d">>, <<"n">> >> >>)

PairDir(d, cases) ==
    LET absent == IF d = 1 THEN {"none", "only2"} ELSE {"none", "only1"}
        here == {n \in PairNames : cases[n] \notin absent}
    IN  Directory([n \in here |-> RegularFile(PairData(d, cases[n]))])

PairInputs == {<<PairDir(1, cases), PairDir(2, cases)>> : cases \in [PairNames -> PairCases]}

\* One file name in both directories, with every small header row.
HeaderName == <<"a", ".", "C", "s", "v">>
Fields == {<<"a">>, <<"b">>, <<" ", "a", "\t">>, <<>>}

RECURSIVE RowsOfLength(_)
RowsOfLength(n) ==
    IF n = 0 THEN {<<>>}
    ELSE {Append(r, f) : r \in RowsOfLength(n - 1), f \in Fields}

Rows == UNION {RowsOfLength(n) : n \in 0..MaxFields}
HeaderDatas == {Undecodable, Text(<<>>)} \cup {Text(<<r>>) : r \in Rows}

HeaderDir(data) == Directory([n \in {HeaderName} |-> RegularFile(data)])
HeaderInputs == {<<HeaderDir(x), HeaderDir(y)>> : x, y \in HeaderDatas}

\* At most one entry in each directory, of every kind and with every name.
KindNames == {<<"b", ".", "c", "s", "v">>, <<"a", ".", "T", "X", "T">>, <<"c", ".", "j", "s", "o", "n">>, <<".", "c", "s", "v">>, <<"c", "s", "v">>}
KindData == Text(<< << <<"a">> >> >>)
Kinds == {RegularFile(KindData), SubDirectory, SymLink("file", KindData),
          SymLink("dir", Text(<<>>)), SymLink("none", Text(<<>>))}

KindDirs == {Directory(NoEntries)} \cup {Directory([n \in {name} |-> e]) : name \in KindNames, e \in Kinds}
KindInputs == KindDirs \X KindDirs

\* One or both of dir1 and dir2 is a file, or nothing at all.
NotDirs == {NoDirectory("file"), NoDirectory("none")}
MissingInputs == (NotDirs \X KindDirs) \cup (KindDirs \X NotDirs) \cup (NotDirs \X NotDirs)

Inputs == PairInputs \cup HeaderInputs \cup KindInputs \cup MissingInputs

\* The report of an earlier invocation, which the output path may hold.
OldReport == RegularFile(Text(<<ReportHeader>>))

---------------------------------------------------------------------------
(* The functions of the program. *)

\* find_files without lower(): the suffix compared as it is written
find_files_case_sensitive(directory) ==
    {name \in DOMAIN directory.entries :
        /\ is_file(directory.entries[name])
        /\ Suffix(name) \in VALID_EXTENSIONS}

\* find_files: the keys of the mapping it returns
find_files(directory) ==
    {name \in DOMAIN directory.entries :
        /\ is_file(directory.entries[name])
        /\ Lower(Suffix(name)) \in VALID_EXTENSIONS}

\* the orders in which iterdir() may yield the files find_files keeps
Orders(S) == {o \in [1..Cardinality(S) -> S] : Range(o) = S}

\* sorted(set(dir1_files)): the names of dir2 alone forgotten
AllFilenamesOfDir1(files1, files2) == Sorted(Range(files1))

\* list(dir1_files | dir2_files): the names in insertion order, not sorted
AllFilenamesUnsorted(files1, files2) ==
    files1 \o SelectSeq(files2, LAMBDA name : name \notin Range(files1))

\* compare_headers: all_filenames
AllFilenames(files1, files2) == Sorted(Range(files1) \cup Range(files2))

\* read_headers: next(reader) on a file of the given data
NoRecord == [state |-> "none", row |-> <<>>]

\* next(reader) with the decode failure caught and taken for an empty file
NextRecordLenient(data) ==
    IF ~data.ok \/ data.records = <<>> THEN [state |-> "stop", row |-> <<>>]
    ELSE [state |-> "row", row |-> data.records[1]]

NextRecord(data) ==
    IF ~data.ok THEN [state |-> "error", row |-> <<>>]
    ELSE IF data.records = <<>> THEN [state |-> "stop", row |-> <<>>]
    ELSE [state |-> "row", row |-> data.records[1]]

\* read_headers: the value returned
Headers(r) ==
    IF r.state = "stop" THEN <<>>
    ELSE [i \in 1..Len(r.row) |-> Strip(r.row[i])]

\* the headers that differ from the header at the same position of others
MissingFromByPosition(headers, others) ==
    LET differs(i) == i > Len(others) \/ others[i] # headers[i]
        RECURSIVE From(_)
        From(i) ==
            IF i > Len(headers) THEN <<>>
            ELSE (IF differs(i) THEN <<headers[i]>> ELSE <<>>) \o From(i + 1)
    IN  From(1)

\* [header for header in headers if header not in others]
MissingFrom(headers, others) ==
    SelectSeq(headers, LAMBDA header : header \notin Range(others))

\* the same list with every header named once
RECURSIVE Unique(_)
Unique(missing) ==
    IF missing = <<>> THEN <<>>
    ELSE LET front == Unique(SubSeq(missing, 1, Len(missing) - 1))
             last == missing[Len(missing)]
         IN  IF last \in Range(front) THEN front ELSE Append(front, last)

QuotedListUnique(missing) ==
    Join(<<",", " ">>, [i \in 1..Len(Unique(missing)) |-> <<"'">> \o Unique(missing)[i] \o <<"'">>])

\* ", ".join(f"'{header}'" for header in missing)
QuotedList(missing) ==
    Join(<<",", " ">>, [i \in 1..Len(missing) |-> <<"'">> \o missing[i] \o <<"'">>])

\* compare_headers: the result for a file that is in both directories
CompareResult(filename, h1, h2) ==
    LET missing_in_dir2 == MissingFrom(h1, h2)
        missing_in_dir1 == MissingFrom(h2, h1)
        message_parts ==
            (IF missing_in_dir2 # <<>>
             THEN << Dir1Missing \o QuotedList(missing_in_dir2) >> ELSE <<>>)
            \o
            (IF missing_in_dir1 # <<>>
             THEN << Dir2Missing \o QuotedList(missing_in_dir1) >> ELSE <<>>)
    IN  IF missing_in_dir1 = <<>> /\ missing_in_dir2 = <<>>
        THEN ComparisonResult(filename, S_match, <<>>)
        ELSE ComparisonResult(filename, S_mismatch, Join(<<";", " ">>, message_parts))

\* the message naming the directory that has the file
MissingResultOtherDir(filename, d) ==
    ComparisonResult(filename, S_missing, filename \o NotFoundIn \o DirPath(3 - d))

\* compare_headers: the result for a file that directory d lacks
MissingResult(filename, d) ==
    ComparisonResult(filename, S_missing, filename \o NotFoundIn \o DirPath(d))

\* write_report: the rows written
ReportRows(rs) ==
    <<ReportHeader>> \o [i \in 1..Len(rs) |-> <<rs[i].filename, rs[i].status, rs[i].details>>]

\* the file system once path d/name holds a regular file of the given data
WriteFile(f, d, name, data) ==
    [f EXCEPT ![d].entries =
        [n \in DOMAIN f[d].entries \cup {name} |->
            IF n = name THEN RegularFile(data) ELSE f[d].entries[n]]]

---------------------------------------------------------------------------
(* The state before main() runs. *)

NoResults == [returned |-> FALSE, value |-> <<>>]

Init ==
    /\ \E in \in Inputs, o \in {0, 1}, old \in BOOLEAN :
        /\ o = 1 => ~old
        /\ out_dir = o
        /\ fs = [d \in 0..2 |->
                    IF d = 0
                    THEN Directory(IF old THEN [n \in {OutName} |-> OldReport] ELSE NoEntries)
                    ELSE in[d]]
    /\ fs0 = fs
    /\ pc = "check1"
    /\ dir1_files = <<>>
    /\ dir2_files = <<>>
    /\ all_filenames = <<>>
    /\ idx = 1
    /\ results = <<>>
    /\ rec = NoRecord
    /\ headers1 = <<>>
    /\ headers2 = <<>>
    /\ handles = {}
    /\ main_results = NoResults
    /\ exit_code = -1
    /\ stderr = <<>>
    /\ run = 1
    /\ enumerated = {}
    /\ opened = {}
    /\ first_report = <<>>

---------------------------------------------------------------------------
(* main() *)

locals == <<dir1_files, dir2_files, all_filenames, idx, results, rec, headers1,
            headers2, handles, main_results>>
history == <<fs0, enumerated, opened, first_report>>

\* raise SystemExit(f"Directory not found: {dir}")
SystemExit(d) ==
    /\ pc' = "exited"
    /\ exit_code' = 1
    /\ stderr' = DirNotFound \o DirPath(d)

\* if not dir1.is_dir()
CheckDir1 ==
    /\ pc = "check1"
    /\ IF is_dir(fs, 1)
       THEN pc' = "check2" /\ UNCHANGED <<exit_code, stderr>>
       ELSE SystemExit(1)
    /\ UNCHANGED <<fs, out_dir, run, locals, history>>

\* if not dir2.is_dir()
CheckDir2 ==
    /\ pc = "check2"
    /\ IF is_dir(fs, 2)
       THEN pc' = "find1" /\ UNCHANGED <<exit_code, stderr>>
       ELSE SystemExit(2)
    /\ UNCHANGED <<fs, out_dir, run, locals, history>>

\* dir1_files = find_files(dir1)
FindFiles1 ==
    /\ pc = "find1"
    /\ \E order \in Orders(find_files(fs[1])) : dir1_files' = order
    /\ enumerated' = enumerated \cup {1}
    /\ pc' = "find2"
    /\ UNCHANGED <<fs, out_dir, run, dir2_files, all_filenames, idx, results, rec,
                   headers1, headers2, handles, main_results, exit_code, stderr,
                   fs0, opened, first_report>>

\* dir2_files = find_files(dir2)
FindFiles2 ==
    /\ pc = "find2"
    /\ \E order \in Orders(find_files(fs[2])) : dir2_files' = order
    /\ enumerated' = enumerated \cup {2}
    /\ pc' = "sort"
    /\ UNCHANGED <<fs, out_dir, run, dir1_files, all_filenames, idx, results, rec,
                   headers1, headers2, handles, main_results, exit_code, stderr,
                   fs0, opened, first_report>>

\* results = []; all_filenames = sorted(set(dir1_files) | set(dir2_files))
SortFilenames ==
    /\ pc = "sort"
    /\ results' = <<>>
    /\ all_filenames' = AllFilenames(dir1_files, dir2_files)
    /\ idx' = 1
    /\ pc' = "loop"
    /\ UNCHANGED <<fs, out_dir, run, dir1_files, dir2_files, rec, headers1, headers2,
                   handles, main_results, exit_code, stderr, history>>

frame == <<fs, out_dir, run, dir1_files, dir2_files, all_filenames, main_results,
           exit_code, stderr, fs0, enumerated, first_report>>

\* for filename in all_filenames, when file1 is None
Missing1 ==
    /\ pc = "loop"
    /\ idx <= Len(all_filenames)
    /\ all_filenames[idx] \notin Range(dir1_files)
    /\ results' = Append(results, MissingResult(all_filenames[idx], 1))
    /\ idx' = idx + 1
    /\ UNCHANGED <<pc, rec, headers1, headers2, handles, opened, frame>>

\* for filename in all_filenames, when file2 is None
Missing2 ==
    /\ pc = "loop"
    /\ idx <= Len(all_filenames)
    /\ all_filenames[idx] \in Range(dir1_files)
    /\ all_filenames[idx] \notin Range(dir2_files)
    /\ results' = Append(results, MissingResult(all_filenames[idx], 2))
    /\ idx' = idx + 1
    /\ UNCHANGED <<pc, rec, headers1, headers2, handles, opened, frame>>

\* for filename in all_filenames, when both directories have the file
Both ==
    /\ pc = "loop"
    /\ idx <= Len(all_filenames)
    /\ all_filenames[idx] \in Range(dir1_files)
    /\ all_filenames[idx] \in Range(dir2_files)
    /\ pc' = "open1"
    /\ UNCHANGED <<idx, results, rec, headers1, headers2, handles, opened, frame>>

\* read_headers: with file_path.open(...) as handle
OpenFile(d) ==
    /\ handles' = handles \cup {<<d, all_filenames[idx]>>}
    /\ opened' = opened \cup {<<d, all_filenames[idx]>>}
    /\ UNCHANGED <<idx, results, rec, headers1, headers2, frame>>

\* read_headers: headers = next(reader)
ReadRecord(d) ==
    /\ rec' = NextRecord(fs[d].entries[all_filenames[idx]].data)
    /\ UNCHANGED <<idx, results, headers1, headers2, handles, opened, frame>>

\* read_headers: the with block closes the file and never returns early
\* without closing it
CloseFileUnlessEmpty(d, next) ==
    /\ handles' = IF rec.state = "stop" THEN handles ELSE handles \ {<<d, all_filenames[idx]>>}
    /\ rec' = NoRecord
    /\ IF rec.state = "error"
       THEN /\ pc' = "crashed"
            /\ exit_code' = 1
            /\ UNCHANGED <<headers1, headers2>>
       ELSE /\ pc' = next
            /\ headers1' = IF d = 1 THEN Headers(rec) ELSE headers1
            /\ headers2' = IF d = 2 THEN Headers(rec) ELSE headers2
            /\ UNCHANGED exit_code
    /\ UNCHANGED <<idx, results, opened, fs, out_dir, run, dir1_files, dir2_files,
                   all_filenames, main_results, stderr, fs0, enumerated, first_report>>

\* read_headers: the end of the with block, and then the return of the
\* headers or the exception on its way out of main()
CloseFile(d, next) ==
    /\ handles' = handles \ {<<d, all_filenames[idx]>>}
    /\ rec' = NoRecord
    /\ IF rec.state = "error"
       THEN /\ pc' = "crashed"
            /\ exit_code' = 1
            /\ UNCHANGED <<headers1, headers2>>
       ELSE /\ pc' = next
            /\ headers1' = IF d = 1 THEN Headers(rec) ELSE headers1
            /\ headers2' = IF d = 2 THEN Headers(rec) ELSE headers2
            /\ UNCHANGED exit_code
    /\ UNCHANGED <<idx, results, opened, fs, out_dir, run, dir1_files, dir2_files,
                   all_filenames, main_results, stderr, fs0, enumerated, first_report>>

\* headers1 = read_headers(file1)
Open1 ==
    /\ pc = "open1"
    /\ OpenFile(1)
    /\ pc' = "next1"

Next1 ==
    /\ pc = "next1"
    /\ ReadRecord(1)
    /\ pc' = "close1"

Close1 ==
    /\ pc = "close1"
    /\ CloseFile(1, "open2")

\* headers2 = read_headers(file2)
Open2 ==
    /\ pc = "open2"
    /\ OpenFile(2)
    /\ pc' = "next2"

Next2 ==
    /\ pc = "next2"
    /\ ReadRecord(2)
    /\ pc' = "close2"

Close2 ==
    /\ pc = "close2"
    /\ CloseFile(2, "compare")

\* compare_headers: lines 106 to 133
Compare ==
    /\ pc = "compare"
    /\ results' = Append(results, CompareResult(all_filenames[idx], headers1, headers2))
    /\ idx' = idx + 1
    /\ pc' = "loop"
    /\ UNCHANGED <<rec, headers1, headers2, handles, opened, frame>>

\* return results
Return ==
    /\ pc = "loop"
    /\ idx > Len(all_filenames)
    /\ main_results' = [returned |-> TRUE, value |-> results]
    /\ pc' = "write"
    /\ UNCHANGED <<fs, out_dir, run, dir1_files, dir2_files, all_filenames, idx,
                   results, rec, headers1, headers2, handles, exit_code, stderr,
                   history>>

\* write_report(results, output), and the end of main()
WriteReport ==
    /\ pc = "write"
    /\ fs' = WriteFile(fs, out_dir, OutName, Text(ReportRows(main_results.value)))
    /\ first_report' = IF run = 1 THEN ReportRows(main_results.value) ELSE first_report
    /\ exit_code' = 0
    /\ pc' = "done"
    /\ UNCHANGED <<out_dir, run, locals, stderr, fs0, enumerated, opened>>

\* the same command line once more
RunAgain ==
    /\ pc = "done"
    /\ run < MaxRuns
    /\ run' = run + 1
    /\ pc' = "check1"
    /\ dir1_files' = <<>>
    /\ dir2_files' = <<>>
    /\ all_filenames' = <<>>
    /\ idx' = 1
    /\ results' = <<>>
    /\ headers1' = <<>>
    /\ headers2' = <<>>
    /\ main_results' = NoResults
    /\ exit_code' = -1
    /\ enumerated' = {}
    /\ opened' = {}
    /\ UNCHANGED <<fs, out_dir, rec, handles, stderr, fs0, first_report>>

Next ==
    \/ CheckDir1
    \/ CheckDir2
    \/ FindFiles1
    \/ FindFiles2
    \/ SortFilenames
    \/ Missing1
    \/ Missing2
    \/ Both
    \/ Open1
    \/ Next1
    \/ Close1
    \/ Open2
    \/ Next2
    \/ Close2
    \/ Compare
    \/ Return
    \/ WriteReport
    \/ RunAgain

Spec == Init /\ [][Next]_vars

---------------------------------------------------------------------------
(* What the properties speak of. *)

\* the two file indices
Index1 == Range(dir1_files)
Index2 == Range(dir2_files)

\* the trimmed header row of the file of that name in directory d
HeaderRow(d, name) == Headers(NextRecord(fs[d].entries[name].data))

\* the fields of one header row that the other lacks, as details lists them
RECURSIVE Listed(_, _)
Listed(row, other) ==
    IF row = <<>> THEN <<>>
    ELSE LET rest == Listed(Tail(row), other)
         IN  IF Head(row) \in Range(other) THEN rest
             ELSE <<"'">> \o Head(row) \o <<"'">>
                  \o (IF rest = <<>> THEN <<>> ELSE <<",", " ">> \o rest)

\* how often a field occurs in a row
Occurrences(row, field) == Cardinality({i \in 1..Len(row) : row[i] = field})

\* the name ends in a dot and csv or txt, in either case, after a stem
HasValidExtension(name) ==
    \E e \in {<<"c", "s", "v">>, <<"t", "x", "t">>} :
        /\ Len(name) > Len(e) + 1
        /\ name[Len(name) - Len(e)] = "."
        /\ Lower(SubSeq(name, Len(name) - Len(e) + 1, Len(name))) = e

\* the index of directory d, once find_files has returned it
IndexOf(d) == IF d = 1 THEN Index1 ELSE Index2

\* the directory may have changed since it was enumerated only by the report
Enumerated(d) == d \in enumerated /\ pc # "done"

\* the report file, if there is one
HasReport(f) == OutName \in DOMAIN f[out_dir].entries
Report(f) == f[out_dir].entries[OutName].data.records

\* a file that find_files keeps in both directories does not decode
UndecodablePair ==
    \E name \in find_files(fs[1]) \cap find_files(fs[2]) :
        \E d \in {1, 2} : ~fs[d].entries[name].data.ok

---------------------------------------------------------------------------
(* The properties. *)

\* C1: a result has status match if and only if its filename is in both
\* indices and the two trimmed header rows hold the same set of strings, and
\* a match has empty details.
C1_MatchIffSameFieldSet ==
    \A i \in 1..Len(results) :
        LET r == results[i]
        IN  /\ r.status = S_match <=>
                 /\ r.filename \in Index1 \cap Index2
                 /\ Range(HeaderRow(1, r.filename)) = Range(HeaderRow(2, r.filename))
            /\ r.status = S_match => r.details = <<>>

C1_Witness ==
    /\ pc = "done"
    /\ \E i \in 1..Len(results) :
          /\ results[i].status = S_match
          /\ HeaderRow(1, results[i].filename) # HeaderRow(2, results[i].filename)
          /\ Len(HeaderRow(1, results[i].filename)) # Len(HeaderRow(2, results[i].filename))

\* C2: a result has status missing if and only if its filename is in exactly
\* one index, and its details are "<filename> not found in <dir>" with the
\* directory whose index lacks the filename.
C2_MissingIffInOneIndex ==
    \A i \in 1..Len(results) :
        LET r == results[i]
        IN  /\ r.status = S_missing <=> (r.filename \in Index1) # (r.filename \in Index2)
            /\ r.filename \notin Index1 =>
                 r.details = r.filename \o NotFoundIn \o <<"d", "1">>
            /\ r.filename \in Index1 /\ r.filename \notin Index2 =>
                 r.details = r.filename \o NotFoundIn \o <<"d", "2">>

C2_Witness ==
    /\ pc = "done"
    /\ \E i, j \in 1..Len(results) :
          /\ results[i].filename \notin Index1
          /\ results[j].filename \notin Index2
          /\ results[i].status = S_missing
          /\ results[j].status = S_missing

\* C3: a filename in both indices whose header rows differ in the fields they
\* hold has status mismatch, and its details are the clause of the fields of
\* header1 that header2 lacks, then the clause of the fields of header2 that
\* header1 lacks, joined by "; ", an empty clause left out, the fields quoted,
\* comma-joined, in header order and as often as they occur.
C3_MismatchDetails ==
    \A i \in 1..Len(results) :
        LET r == results[i]
            h1 == HeaderRow(1, r.filename)
            h2 == HeaderRow(2, r.filename)
            in2 == Listed(h1, h2)
            in1 == Listed(h2, h1)
        IN  (r.filename \in Index1 \cap Index2 /\ Range(h1) # Range(h2)) =>
                /\ r.status = S_mismatch
                /\ r.details =
                      IF in1 = <<>> THEN Dir1Missing \o in2
                      ELSE IF in2 = <<>> THEN Dir2Missing \o in1
                      ELSE Dir1Missing \o in2 \o <<";", " ">> \o Dir2Missing \o in1

C3_Witness ==
    /\ pc = "done"
    /\ \E i \in 1..Len(results) :
          LET h1 == HeaderRow(1, results[i].filename)
              h2 == HeaderRow(2, results[i].filename)
          IN  /\ results[i].status = S_mismatch
              /\ Range(h1) \ Range(h2) # {}
              /\ \E f \in Range(h2) \ Range(h1) : Occurrences(h2, f) > 1

\* C4: once compare_headers has returned, every filename of either index is
\* in the result exactly once; and at every point of the loop the result
\* holds only filenames of the indices, none of them twice.
C4_EachFilenameOnce ==
    /\ main_results.returned =>
          \A name \in Index1 \cup Index2 :
              Cardinality({i \in 1..Len(main_results.value) :
                              main_results.value[i].filename = name}) = 1
    /\ \A i \in 1..Len(results) : results[i].filename \in Index1 \cup Index2
    /\ \A i, j \in 1..Len(results) :
          results[i].filename = results[j].filename => i = j

C4_Witness ==
    /\ main_results.returned
    /\ Index1 \ Index2 # {}
    /\ Index2 \ Index1 # {}
    /\ Index1 \cap Index2 # {}

\* C5: the result, and with it the data rows of the report, is in strictly
\* ascending order of the filenames as strings, whatever the order in which
\* the directories were enumerated.
C5_SortedByFilename ==
    /\ \A i \in 1..(Len(results) - 1) :
          LexLess(results[i].filename, results[i + 1].filename)
    /\ pc = "done" =>
          /\ Len(Report(fs)) = Len(results) + 1
          /\ \A i \in 2..(Len(Report(fs)) - 1) :
                LexLess(Report(fs)[i][1], Report(fs)[i + 1][1])

C5_Witness ==
    /\ pc = "done"
    /\ Len(results) = 3
    /\ \E i, j \in 1..Len(dir1_files) : i < j /\ LexLess(dir1_files[j], dir1_files[i])
    /\ \E i, j \in 1..Len(dir2_files) : i < j /\ LexLess(dir2_files[j], dir2_files[i])

\* C6: when dir1 or dir2 is not a directory, the process exits with a status
\* that is not 0 and a message that names a path that is not a directory,
\* and it enumerates no directory, opens no file and leaves the file system,
\* the report with it, as it was.
C6_NoDirectoryAborts ==
    /\ (fs0[1].kind # "dir" \/ fs0[2].kind # "dir") =>
          /\ pc \in {"check1", "check2", "exited"}
          /\ enumerated = {}
          /\ opened = {}
          /\ ~main_results.returned
          /\ fs = fs0
    /\ pc = "exited" =>
          /\ exit_code # 0
          /\ exit_code # -1
          /\ \E d \in {1, 2} :
                /\ fs0[d].kind # "dir"
                /\ stderr = DirNotFound \o (IF d = 1 THEN <<"d", "1">> ELSE <<"d", "2">>)

C6_Witness ==
    /\ pc = "exited"
    /\ fs0[1].kind = "dir"
    /\ fs0[2].kind = "file"
    /\ fs0[1].entries # NoEntries
    /\ ~HasReport(fs)

\* C7: when a file that is in both indices does not decode, the invocation
\* neither returns a result sequence nor writes the report; when the failure
\* is met the process ends with the exception, the file system as it was, no
\* result for the file that failed, and the results of the earlier files
\* lost with the frame of compare_headers.
C7_DecodeFailureIsFatal ==
    /\ (fs[1].kind = "dir" /\ fs[2].kind = "dir" /\ UndecodablePair) =>
          /\ pc \notin {"write", "done"}
          /\ ~main_results.returned
          /\ fs = fs0
    /\ pc = "crashed" =>
          /\ exit_code = 1
          /\ ~main_results.returned
          /\ fs = fs0
          /\ \A i \in 1..Len(results) : results[i].filename # all_filenames[idx]
          /\ \E d \in {1, 2} : ~fs[d].entries[all_filenames[idx]].data.ok

C7_Witness ==
    /\ pc = "crashed"
    /\ Len(results) > 0
    /\ HasReport(fs)
    /\ fs[1].entries[all_filenames[idx]].data.ok

\* C8, as amended: find_files keeps an entry of the directory if and only if
\* the entry is a regular file, or a symbolic link to one, and its name ends
\* in .csv or .txt in either case; every filename of the result is such an
\* entry of dir1 or dir2.
C8_IndexOfFilesAndLinksToFiles ==
    /\ \A d \in {1, 2} :
          Enumerated(d) =>
              \A name \in DOMAIN fs[d].entries :
                  name \in IndexOf(d) <=>
                      /\ \/ fs[d].entries[name].type = "file"
                         \/ /\ fs[d].entries[name].type = "link"
                            /\ fs[d].entries[name].target = "file"
                      /\ HasValidExtension(name)
    /\ \A d \in {1, 2} : Enumerated(d) => IndexOf(d) \subseteq DOMAIN fs[d].entries
    /\ pc # "done" =>
          \A i \in 1..Len(results) :
              \E d \in {1, 2} :
                  /\ results[i].filename \in DOMAIN fs[d].entries
                  /\ fs[d].entries[results[i].filename].target = "file"
                  /\ HasValidExtension(results[i].filename)

C8_Witness ==
    /\ pc = "write"
    /\ Len(results) = 1
    /\ \E name \in DOMAIN fs[1].entries :
          fs[1].entries[name].type = "link" /\ name \in Index1
    /\ \E name \in DOMAIN fs[2].entries :
          fs[2].entries[name].type = "dir" /\ HasValidExtension(name) /\ name \notin Index2

\* C8 as it was stated: find_files keeps an entry if and only if the entry is
\* a regular file, no symbolic link, with a name that ends in .csv or .txt.
C8_IndexOfRegularFilesOnly ==
    \A d \in {1, 2} :
        Enumerated(d) =>
            \A name \in DOMAIN fs[d].entries :
                name \in IndexOf(d) <=>
                    /\ fs[d].entries[name].type = "file"
                    /\ HasValidExtension(name)

\* C9: a second invocation on directories that are as they were before the
\* first writes, to the same file, the report that the first wrote.
C9_SecondReportIsTheFirst ==
    (pc = "done" /\ run > 1 /\ fs[1] = fs0[1] /\ fs[2] = fs0[2]) =>
        /\ HasReport(fs)
        /\ Report(fs) = first_report

C9_Witness ==
    /\ pc = "done"
    /\ run = 2
    /\ fs[1] = fs0[1]
    /\ fs[2] = fs0[2]
    /\ HasReport(fs0)
    /\ Report(fs) # Report(fs0)
    /\ Len(first_report) = 4

\* C10: at most one input file is open at a time, and only while
\* read_headers reads it; it is closed before the next file is opened and
\* before compare_headers returns or fails, an empty file and a file that
\* does not decode included; only files in both indices are ever opened.
C10_OneScopedHandle ==
    /\ Cardinality(handles) <= 1
    /\ pc \in {"next1", "close1"} => handles = {<<1, all_filenames[idx]>>}
    /\ pc \in {"next2", "close2"} => handles = {<<2, all_filenames[idx]>>}
    /\ pc \notin {"next1", "close1", "next2", "close2"} => handles = {}
    /\ \A h \in opened : h[2] \in Index1 \cap Index2

C10_Witness ==
    /\ pc = "next2"
    /\ handles = {<<2, all_filenames[idx]>>}
    /\ <<1, all_filenames[idx]>> \in opened
    /\ headers1 = <<>>
    /\ fs[1].entries[all_filenames[idx]].data.records = <<>>
    /\ ~fs[2].entries[all_filenames[idx]].data.ok

===========================================================================
